---- MODULE Spec2Model ----
(***************************************************************************)
(* Model of the screenshot MCP server (src/index.js): the take_screenshot  *)
(* request handler, the PowerShell capture script it generates, and the    *)
(* desktop (windows, monitors, focus, files) the script acts on.           *)
(*                                                                         *)
(* Text is modelled as a sequence of one-character strings, so that the    *)
(* handler's interpolation of argument values into script text, escPS,     *)
(* PowerShell's single-quoted literals, ToLower, Replace and -like are     *)
(* computed as the code computes them.  An optional argument is a sequence *)
(* of length 0 (undefined) or 1 (the supplied value).                      *)
(***************************************************************************)
EXTENDS Integers, Sequences, FiniteSets, TLC

(***************************************************************************)
(* Bounds of the model.                                                    *)
(***************************************************************************)
\* largest windowNumber argument a request carries
MaxWindowNumber == 4
\* largest numeric monitor argument a request carries
MaxMonitorArg == 3
\* largest distance of a window's left and top edge from the screen origin
MaxCoord == 12

(***************************************************************************)
(* Optional values (JavaScript undefined / supplied).                      *)
(***************************************************************************)
Undef == << >>
Some(v) == << v >>
IsDef(o) == o # << >>

(***************************************************************************)
(* Text.                                                                   *)
(***************************************************************************)
Empty == << >>
Quote == "'"
UndefinedText == << "u", "n", "d", "e", "f", "i", "n", "e", "d" >>
DotExe == << ".", "e", "x", "e" >>
HexPrefix == << "0", "x" >>
AllText == << "a", "l", "l" >>
PrimaryText == << "p", "r", "i", "m", "a", "r", "y" >>
SimpleText == << "s", "i", "m", "p", "l", "e" >>
DetailedText == << "d", "e", "t", "a", "i", "l", "e", "d" >>

UpperChars == << "A", "B", "N", "X" >>
LowerChars == << "a", "b", "n", "x" >>
DigitChars == << "0", "1", "2", "3", "4", "5", "6", "7", "8", "9" >>
HexChars == << "0", "1", "2", "3", "4", "5", "6", "7", "8", "9", "a", "b", "c", "d", "e", "f" >>

\* char.ToLower()
LowerChar(c) ==
  IF \E i \in 1..Len(UpperChars) : UpperChars[i] = c
    THEN LowerChars[CHOOSE i \in 1..Len(UpperChars) : UpperChars[i] = c]
    ELSE c

\* String.ToLower()
ToLower(s) == [i \in 1..Len(s) |-> LowerChar(s[i])]

\* s has t at position i (1-based), ordinal comparison
MatchAt(s, t, i) ==
  /\ i + Len(t) - 1 <= Len(s)
  /\ \A j \in 1..Len(t) : s[i + j - 1] = t[j]

\* String.Contains(t): ordinal, case-sensitive; the empty string is contained
Contains(s, t) == \E i \in 1..(Len(s) + 1) : MatchAt(s, t, i)

\* String.Replace(pat, ''): every occurrence of pat, left to right, is removed
RECURSIVE RemoveAll(_, _)
RemoveAll(s, pat) ==
  IF s = << >> \/ pat = << >> THEN s
  ELSE IF MatchAt(s, pat, 1)
    THEN RemoveAll(SubSeq(s, Len(pat) + 1, Len(s)), pat)
    ELSE << s[1] >> \o RemoveAll(Tail(s), pat)

\* PowerShell  $s -like "*$pat*"  for a pattern without wildcard characters:
\* case-insensitive containment
LikeContains(s, pat) == Contains(ToLower(s), ToLower(pat))

\* JavaScript `${n}` of a non-negative integer: its decimal digits
RECURSIVE NumText(_)
NumText(n) ==
  IF n < 10 THEN << DigitChars[n + 1] >>
  ELSE NumText(n \div 10) \o << DigitChars[(n % 10) + 1] >>

IsDigit(c) == \E i \in 1..10 : DigitChars[i] = c
DigitVal(c) == (CHOOSE i \in 1..10 : DigitChars[i] = c) - 1
HexVal(c) == (CHOOSE i \in 1..16 : HexChars[i] = LowerChar(c)) - 1

\* all characters of s are decimal digits, and there is at least one
AllDigits(s) == s # << >> /\ \A i \in 1..Len(s) : IsDigit(s[i])

\* value of a string of digits in the given base
RECURSIVE ParseBase(_, _)
ParseBase(s, base) ==
  IF s = << >> THEN 0
  ELSE ParseBase(SubSeq(s, 1, Len(s) - 1), base) * base
       + (IF base = 16 THEN HexVal(s[Len(s)]) ELSE DigitVal(s[Len(s)]))

(***************************************************************************)
(* Script text: interpolation, escaping and single-quoted literals.        *)
(***************************************************************************)
\* JavaScript `${s}` of an optional string
JsText(o) == IF IsDef(o) THEN o[1] ELSE UndefinedText

\* JavaScript `${n}` of an optional number
JsNumText(o) == IF IsDef(o) THEN NumText(o[1]) ELSE UndefinedText

\* every ' becomes ''
RECURSIVE DoubleQuotes(_)
DoubleQuotes(s) ==
  IF s = << >> THEN << >>
  ELSE (IF s[1] = Quote THEN << Quote, Quote >> ELSE << s[1] >>) \o DoubleQuotes(Tail(s))

\* escPS(s) = String(s ?? '').replace(/'/g, "''")
escPS(o) == DoubleQuotes(IF IsDef(o) THEN o[1] ELSE Empty)

\* The script text  'body'  is one single-quoted literal: inside it a quote
\* occurs only doubled.  A lone quote ends the literal early and leaves the
\* rest of the line as stray tokens: the script does not parse.
RECURSIVE SqOk(_)
SqOk(body) ==
  IF body = << >> THEN TRUE
  ELSE IF body[1] # Quote THEN SqOk(Tail(body))
  ELSE Len(body) >= 2 /\ body[2] = Quote /\ SqOk(SubSeq(body, 3, Len(body)))

\* the string a single-quoted literal denotes: '' reads as '
RECURSIVE SqValue(_)
SqValue(body) ==
  IF body = << >> THEN << >>
  ELSE IF body[1] = Quote /\ Len(body) >= 2 /\ body[2] = Quote
    THEN << Quote >> \o SqValue(SubSeq(body, 3, Len(body)))
    ELSE << body[1] >> \o SqValue(Tail(body))

\* PowerShell -eq / -ne on strings compare case-insensitively
PsEq(a, b) == ToLower(a) = ToLower(b)

\* PowerShell conversion of a string to Boolean: any non-empty string is true
PsTruthy(s) == s # ""

\* JavaScript truthiness of an optional string, number, Boolean
JsTruthyStr(o) == IsDef(o) /\ o[1] # Empty
JsTruthyNum(o) == IsDef(o) /\ o[1] # 0
JsTruthyBool(o) == IsDef(o) /\ o[1]

(***************************************************************************)
(* The desktop: top-level windows and monitors.                            *)
(***************************************************************************)
\* IntPtr.Zero
NoWindow == 0

\* the top-level windows that can be open, by handle: title, name of the
\* owning process, whether Get-Process can query that process, IsWindowVisible,
\* window rectangle (Left, Top, Right, Bottom)
WinTable ==
  << [title |-> << "A", "b" >>,      process |-> << "n", "a" >>, queryable |-> TRUE,
      visible |-> TRUE,  rect |-> << 5, 5, 30, 20 >>],
     [title |-> << "a", "'", "b" >>, process |-> << "n", "b" >>, queryable |-> FALSE,
      visible |-> TRUE,  rect |-> << -4, 12, 16, 30 >>],
     [title |-> << "B" >>,           process |-> << "n", "b" >>, queryable |-> TRUE,
      visible |-> TRUE,  rect |-> << 0, 0, 40, 25 >>],
     [title |-> << "b" >>,           process |-> << "n", "a" >>, queryable |-> TRUE,
      visible |-> FALSE, rect |-> << 1, 1, 9, 9 >> ] >>

\* try { $p = Get-Process -Id $procId -ErrorAction Stop } catch { $p = $null }
\* $proc = if ($p) { $p.ProcessName } else { '' }
ProcOf(hw) == IF WinTable[hw].queryable THEN WinTable[hw].process ELSE Empty

Handles == 1..Len(WinTable)

\* the orders in which EnumWindows can report the open windows
WinOrders == { << >>, << 3, 4 >>, << 1, 2, 3 >>, << 4, 2, 3, 1 >> }

\* the sets of windows that can be minimized when a request arrives
IconicSets == { {}, {1, 2, 3, 4} }

\* the monitors that can be attached: bounds (X, Y, Width, Height), Primary
MonTable ==
  << [x |-> 0,  y |-> 0, w |-> 8, h |-> 6, primary |-> TRUE],
     [x |-> 8,  y |-> 0, w |-> 5, h |-> 4, primary |-> FALSE],
     [x |-> -6, y |-> 1, w |-> 6, h |-> 3, primary |-> FALSE],
     [x |-> 0,  y |-> 6, w |-> 7, h |-> 5, primary |-> FALSE] >>

\* the orders in which Screen.AllScreens can report the attached monitors
MonOrders == { << 1 >>, << 1, 2 >>, << 2, 1 >>, << 2, 3, 1 >>, << 4, 1, 3 >> }

(***************************************************************************)
(* Requests.                                                               *)
(***************************************************************************)
\* the monitor argument is a number or a string
MonNum(n) == [isNum |-> TRUE, n |-> n, text |-> Empty]
MonStr(t) == [isNum |-> FALSE, n |-> 0, text |-> t]

TitleArgs == { Undef, Some(Empty), Some(<< "b" >>), Some(<< "a", Quote >>), Some(<< "z" >>) }
ProcessArgs == { Undef, Some(Empty), Some(<< "N", "a", ".", "e", "x", "e" >>), Some(<< "z" >>) }
NumberArgs == { Undef } \cup { Some(k) : k \in 0..MaxWindowNumber }
HandleArgs == { Undef, Some(Empty), Some(<< "0", "x", "3" >>), Some(<< "5" >>) }
FilterArgs == { Undef, Some(<< "N" >>) }
BoolArgs == { Undef, Some(FALSE), Some(TRUE) }
MonitorArgs ==
  { Undef, Some(MonStr(AllText)), Some(MonStr(PrimaryText)), Some(MonStr(<< "2" >>)),
    Some(MonStr(<< "z" >>)) }
  \cup { Some(MonNum(n)) : n \in 0..MaxMonitorArg }

\* requests that exercise target resolution
ResolveRequests ==
  [ windowHandle : HandleArgs, windowNumber : NumberArgs, windowTitle : TitleArgs,
    processName : ProcessArgs, filter : FilterArgs, allowFocus : { Undef },
    restoreIfMinimized : { Undef }, monitor : { Undef } ]

\* requests that exercise the capture options on a resolved window
CaptureRequests ==
  [ windowHandle : { Undef, Some(<< "0", "x", "3" >>) }, windowNumber : { Undef, Some(1) },
    windowTitle : { Undef }, processName : { Undef }, filter : { Undef },
    allowFocus : BoolArgs, restoreIfMinimized : BoolArgs, monitor : { Undef } ]

\* requests that exercise the monitor argument
MonitorRequests ==
  [ windowHandle : { Undef, Some(Empty) }, windowNumber : { Undef, Some(0), Some(1) },
    windowTitle : { Undef, Some(Empty) }, processName : { Undef },
    filter : { Undef }, allowFocus : { Undef }, restoreIfMinimized : { Undef },
    monitor : MonitorArgs ]

\* list_windows requests
ListFilterArgs ==
  { Undef, Some(Empty), Some(<< "N" >>), Some(<< "b" >>), Some(<< "a", Quote >>), Some(<< "z" >>) }
FormatArgs == { Undef, Some(Empty), Some(DetailedText), Some(<< "x", Quote >>) }
ListRequests == [ filter : ListFilterArgs, format : FormatArgs ]

Requests == ResolveRequests \cup CaptureRequests \cup MonitorRequests

\* the desktops a request can find: window layouts with one monitor, and
\* monitor layouts with one window layout; stale = a file already exists at the
\* output path
Desktops ==
  [ wins : WinOrders, iconic : IconicSets, monitors : { << 1, 2 >> }, stale : { FALSE } ]
  \cup [ wins : { << 1, 2, 3 >> }, iconic : { {} }, monitors : MonOrders, stale : BOOLEAN ]

Range(f) == { f[i] : i \in DOMAIN f }

(***************************************************************************)
(* take_screenshot: what the handler computes before it runs the script.   *)
(***************************************************************************)
\* const monitor = request.params.arguments?.monitor || 'all'
MonitorOf(a) ==
  IF IsDef(a.monitor)
       /\ (IF a.monitor[1].isNum THEN a.monitor[1].n # 0 ELSE a.monitor[1].text # Empty)
    THEN a.monitor[1]
    ELSE MonStr(AllText)

\* `${monitor}`
MonitorText(m) == IF m.isNum THEN NumText(m.n) ELSE m.text

\* if (windowTitle || processName || windowNumber || windowHandleArg)
WindowMode(a) ==
  \/ JsTruthyStr(a.windowTitle)
  \/ JsTruthyStr(a.processName)
  \/ JsTruthyNum(a.windowNumber)
  \/ JsTruthyStr(a.windowHandle)

\* which of the three scripts the handler generates
ModeOf(a) ==
  IF WindowMode(a) THEN "window"
  ELSE IF ~MonitorOf(a).isNum /\ MonitorOf(a).text = AllText THEN "all"
  ELSE "monitor"

\* const psAllowFocus = allowFocus ? "'$true'" : "'$false'": the script assigns
\* the single-quoted literal, i.e. the string $true or $false
psAllowFocus(a) == IF JsTruthyBool(a.allowFocus) THEN "$true" ELSE "$false"
psRestore(a) == IF JsTruthyBool(a.restoreIfMinimized) THEN "$true" ELSE "$false"

\* $psFilter, $psWindowTitle, $psProcessName: the literal '${escPS(x)}'
psFilter(a) == SqValue(escPS(a.filter))
psWindowTitle(a) == SqValue(escPS(a.windowTitle))
psProcessName(a) == SqValue(escPS(a.processName))

\* the literals '${windowHandleArg}', '${windowNumber}', '${windowTitle}',
\* '${processName}', '${monitor}' of the script text
RawHandle(a) == JsText(a.windowHandle)
RawNumber(a) == JsNumText(a.windowNumber)
RawTitle(a) == JsText(a.windowTitle)
RawProcess(a) == JsText(a.processName)
RawMonitor(a) == MonitorText(MonitorOf(a))

\* PowerShell parses the whole script before it runs any of it
ScriptParses(a) ==
  IF ModeOf(a) = "window"
    THEN SqOk(RawHandle(a)) /\ SqOk(RawNumber(a)) /\ SqOk(RawTitle(a)) /\ SqOk(RawProcess(a))
  ELSE IF ModeOf(a) = "monitor" THEN SqOk(RawMonitor(a))
  ELSE TRUE

(***************************************************************************)
(* The window script: enumeration and target resolution.                   *)
(***************************************************************************)
\* the condition under which the EnumWindows callback of Get-WindowsList
\* reaches its  $arr += $obj  for window hw
Listed(hw, flt) ==
  /\ WinTable[hw].visible
  /\ Len(WinTable[hw].title) > 0
  /\ \/ flt = Empty
     \/ Contains(ToLower(WinTable[hw].title), ToLower(flt))
     \/ Contains(ToLower(ProcOf(hw)), ToLower(flt))

\* one call of the callback, a script block that runs in a scope of its own:
\* it reads the $arr of Get-WindowsList (arr), and  $arr += $obj  assigns the
\* longer array to a variable $arr of the callback's scope, which ends with
\* the call.  The value is that local $arr.
CallbackArr(arr, hw, flt) ==
  IF Listed(hw, flt) THEN Append(arr, hw) ELSE arr

\* the $arr of Get-WindowsList after EnumWindows has called the callback for
\* every window of ws: no call assigns it
RECURSIVE EnumWindowsArr(_, _, _)
EnumWindowsArr(arr, ws, flt) ==
  IF ws = << >> THEN arr
  ELSE LET local == CallbackArr(arr, ws[1], flt)   \* dropped when the call ends
       IN EnumWindowsArr(arr, Tail(ws), flt)

\* Get-WindowsList $flt over the windows ws in EnumWindows order:
\* $arr = @() ; EnumWindows ; return ,$arr
GetWindowsList(ws, flt) == EnumWindowsArr(<< >>, ws, flt)

\* $list | Where-Object { $_.Title -like "*$pat*" } | Select-Object -First 1
FirstByTitle(list, pat) ==
  LET hits == { i \in 1..Len(list) : LikeContains(WinTable[list[i]].title, pat) }
  IN IF hits = {} THEN NoWindow ELSE list[CHOOSE i \in hits : \A j \in hits : i <= j]

\* $list | Where-Object { $_.Process -like "*$pat*" } | Select-Object -First 1
FirstByProcess(list, pat) ==
  LET hits == { i \in 1..Len(list) : LikeContains(ProcOf(list[i]), pat) }
  IN IF hits = {} THEN NoWindow ELSE list[CHOOSE i \in hits : \A j \in hits : i <= j]

\* if ($h -like '0x*') { [Convert]::ToInt64($h, 16) } else { [int64]$h }
ParseHandle(t) ==
  IF Len(t) >= 2 /\ ToLower(SubSeq(t, 1, 2)) = HexPrefix
    THEN ParseBase(SubSeq(t, 3, Len(t)), 16)
    ELSE ParseBase(t, 10)

\* which branch of the if / elseif chain runs
BranchOf(a) ==
  LET hLit == SqValue(JsText(a.windowHandle))
      nLit == SqValue(JsNumText(a.windowNumber))
      tLit == SqValue(JsText(a.windowTitle))
      pLit == SqValue(JsText(a.processName))
  IN IF ~PsEq(hLit, Empty) /\ ~PsEq(hLit, UndefinedText) THEN "handle"
     ELSE IF ~PsEq(nLit, Empty) /\ ~PsEq(nLit, UndefinedText) THEN "number"
     ELSE IF ~PsEq(tLit, Empty) THEN "title"
     ELSE IF ~PsEq(pLit, Empty) THEN "process"
     ELSE "none"

\* $list = Get-WindowsList $filter, in the branches that enumerate
ListOf(a, ws) ==
  IF BranchOf(a) \in { "number", "title", "process" }
    THEN GetWindowsList(ws, psFilter(a))
    ELSE << >>

Resolved(hw) == [target |-> hw, thrown |-> "", count |-> 0]
Failed(msg, n) == [target |-> NoWindow, thrown |-> msg, count |-> n]

\* the if / elseif chain that sets $target, and the check that follows it
ResolveTarget(a, ws) ==
  LET list == GetWindowsList(ws, psFilter(a))
      hLit == SqValue(RawHandle(a))
      nLit == SqValue(RawNumber(a))
      tLit == SqValue(RawTitle(a))
      pLit == SqValue(RawProcess(a))
      idx  == ParseBase(nLit, 10) - 1
      byTitle == FirstByTitle(list, psWindowTitle(a))
      byProc  == FirstByProcess(list, RemoveAll(psProcessName(a), DotExe))
      chosen ==
        IF ~PsEq(hLit, Empty) /\ ~PsEq(hLit, UndefinedText) THEN Resolved(ParseHandle(hLit))
        ELSE IF ~PsEq(nLit, Empty) /\ ~PsEq(nLit, UndefinedText) THEN
          IF idx < 0 \/ idx >= Len(list)
            THEN Failed("Invalid windowNumber", Len(list))
            ELSE Resolved(list[idx + 1])
        ELSE IF ~PsEq(tLit, Empty) THEN
          IF byTitle = NoWindow THEN Failed("No window found with title containing", 0)
          ELSE Resolved(byTitle)
        ELSE IF ~PsEq(pLit, Empty) THEN
          IF byProc = NoWindow THEN Failed("No window found for process", 0)
          ELSE Resolved(byProc)
        ELSE Resolved(NoWindow)
  IN IF chosen.thrown = "" /\ chosen.target = NoWindow
       THEN Failed("No target window resolved", 0)
       ELSE chosen

(***************************************************************************)
(* The window script: state check, bounds and capture.                     *)
(***************************************************************************)
\* for ($i=0; $i -lt 40; $i++)
PollMax == 40
\* $pad = 10
Pad == 10
\* ShowWindowAsync commands
SW_RESTORE == 9
SW_MINIMIZE == 6

Max(x, y) == IF x >= y THEN x ELSE y

\* GetWindowRect: the rectangle of an open window; the RECT stays zeroed
\* when the handle names no window
WindowRect(hw, ws, rects) == IF hw \in Range(ws) THEN rects[hw] ELSE << 0, 0, 0, 0 >>

\* (variant: the origin is not clamped)
CaptureBoundsUnclamped(rc) ==
  [left |-> rc[1] - Pad, top |-> rc[2] - Pad,
   width |-> (rc[3] + Pad) - (rc[1] - Pad), height |-> (rc[4] + Pad) - (rc[2] - Pad)]

\* $left, $top, $width, $height from the rectangle (Left, Top, Right, Bottom)
CaptureBounds(rc) ==
  LET left == Max(0, rc[1] - Pad)
      top  == Max(0, rc[2] - Pad)
  IN [left |-> left, top |-> top, width |-> (rc[3] + Pad) - left, height |-> (rc[4] + Pad) - top]

\* New-Object System.Drawing.Bitmap w, h succeeds only for positive sizes
BitmapOk(b) == b.width > 0 /\ b.height > 0

\* if ($wasMinimized -and -not $psRestore) { throw ... }
RefusesMinimized(a, wasMinimized) == wasMinimized /\ ~PsTruthy(psRestore(a))

\* if ($psRestore -and $wasMinimized) { ShowWindowAsync($target, 9) ... }
RestoresWindow(a, wasMinimized) == PsTruthy(psRestore(a)) /\ wasMinimized

\* if (-not $pwOk) { fallback or throw } else { save the background image }
EntersFallback(pwOk) == ~pwOk

\* if ($psAllowFocus) { foreground fallback } else { throw ... }
FallbackAllowed(a) == PsTruthy(psAllowFocus(a))

\* (variant: 'Error' is not looked for)
hasRealErrorNoErrorWord(stderr) ==
  /\ stderr # {}
  /\ \/ "throw" \in stderr
     \/ "Exception" \in stderr
     \/ "methodnotfound" \in stderr
     \/ "does not contain a method named" \in stderr
     \/ "not found" \in stderr

\* (variant: the window is left restored)
ReMinimizesNever(wasMinimized) == FALSE

\* if ($wasMinimized) { ShowWindowAsync($target, 6) }
ReMinimizes(wasMinimized) == wasMinimized

\* (variant: the focus is left where the capture put it)
RestoresFocusNever(prev) == FALSE

\* if ($prevForeground -ne [IntPtr]::Zero) { SetForegroundWindow($prevForeground) }
RestoresFocus(prev) == prev # NoWindow

(***************************************************************************)
(* The monitor script.                                                     *)
(***************************************************************************)
\* (variant: the monitors are taken in the order AllScreens reports them)
SortedScreensUnsorted(mons) == { mons }

\* [System.Windows.Forms.Screen]::AllScreens | Sort-Object { $_.Bounds.X }:
\* the orders of the monitors that ascend in X (Sort-Object fixes no order
\* among monitors with the same X)
SortedScreens(mons) ==
  { s \in [1..Len(mons) -> Range(mons)] :
      /\ \A i, j \in 1..Len(mons) : i < j => s[i] # s[j]
      /\ \A i, j \in 1..Len(mons) : i < j => MonTable[s[i]].x <= MonTable[s[j]].x }

\* [System.Windows.Forms.Screen]::PrimaryScreen
PrimaryScreen(mons) == CHOOSE m \in Range(mons) : MonTable[m].primary

NoMonitor == 0
MonResolved(m) == [target |-> m, thrown |-> "", count |-> 0]
MonFailed(msg, n) == [target |-> NoMonitor, thrown |-> msg, count |-> n]

\* the if / elseif that sets $target from '${monitor}', and the null check
ResolveMonitor(a, mons, screens) ==
  LET mLit == SqValue(RawMonitor(a))
      i == ParseBase(mLit, 10) - 1
  IN IF PsEq(mLit, PrimaryText) THEN MonResolved(PrimaryScreen(mons))
     ELSE IF AllDigits(mLit) THEN
       IF i >= 0 /\ i < Len(screens) THEN MonResolved(screens[i + 1])
       ELSE MonFailed("Monitor not found", Len(screens))
     ELSE MonFailed("Invalid monitor parameter", 0)

\* SystemInformation.VirtualScreen: the union of the monitors' bounds
VirtualScreen(mons) ==
  LET ms == Range(mons)
      l == CHOOSE v \in { MonTable[m].x : m \in ms } : \A m \in ms : v <= MonTable[m].x
      t == CHOOSE v \in { MonTable[m].y : m \in ms } : \A m \in ms : v <= MonTable[m].y
      r == CHOOSE v \in { MonTable[m].x + MonTable[m].w : m \in ms } :
             \A m \in ms : v >= MonTable[m].x + MonTable[m].w
      b == CHOOSE v \in { MonTable[m].y + MonTable[m].h : m \in ms } :
             \A m \in ms : v >= MonTable[m].y + MonTable[m].h
  IN [x |-> l, y |-> t, w |-> r - l, h |-> b - t]

(***************************************************************************)
(* list_windows: the handler's defaults and its script.                    *)
(***************************************************************************)
\* const filter = request.params.arguments?.filter || ''
ListFilterOf(a) == IF JsTruthyStr(a.filter) THEN a.filter[1] ELSE Empty

\* const format = request.params.arguments?.format || 'simple'
FormatOf(a) == IF JsTruthyStr(a.format) THEN a.format[1] ELSE SimpleText

\* $filter = ${psFilter}.ToLower(), with psFilter = '${escPS(filter)}'
lsFilter(a) == ToLower(SqValue(escPS(Some(ListFilterOf(a)))))

\* the script text holds the literal '${format}'
ListScriptParses(a) == SqOk(FormatOf(a))

\* the EnumWindows callback of the list script: does window hw enter $results
InResults(hw, flt) ==
  /\ WinTable[hw].visible
  /\ Len(WinTable[hw].title) > 0
  /\ \/ flt = Empty
     \/ Contains(ToLower(WinTable[hw].title), flt)
     \/ Contains(ToLower(ProcOf(hw)), flt)

\* $results after EnumWindows over the windows ws in EnumWindows order
RECURSIVE EnumResults(_, _)
EnumResults(ws, flt) ==
  IF ws = << >> THEN << >>
  ELSE (IF InResults(ws[1], flt) THEN << ws[1] >> ELSE << >>) \o EnumResults(Tail(ws), flt)

\* the lines the script prints: "$($i+1). $($w.Title) (Process: $($w.Process) ...)";
\* hw is the window the line describes (printed as Handle in the detailed format)
ListLines(res, fmt) ==
  [ i \in 1..Len(res) |->
      [ num |-> i, hw |-> res[i], title |-> WinTable[res[i]].title,
        process |-> ProcOf(res[i]), detailed |-> PsEq(SqValue(fmt), DetailedText) ] ]

(***************************************************************************)
(* The handler after the script: classification of its outcome.            *)
(***************************************************************************)
\* what PowerShell writes to the error stream for an uncaught throw: the
\* message, the source line (throw ...), RuntimeException, FullyQualifiedErrorId
ThrowMarkers == { "throw", "Exception", "Error", "ErrorId" }
\* what it writes when the script does not parse
ParseMarkers == { "Exception", "Error", "ErrorId" }
\* what it writes when a method call fails and the script goes on
CallFailedMarkers == { "Exception", "Error", "ErrorId" }

\* const hasRealError = stderr && ( ... ), on the markers the stream contains
hasRealError(stderr) ==
  /\ stderr # {}
  /\ \/ "throw" \in stderr
     \/ "Exception" \in stderr
     \/ "methodnotfound" \in stderr
     \/ "does not contain a method named" \in stderr
     \/ "not found" \in stderr
     \/ ("Error" \in stderr /\ "ErrorId" \notin stderr)

(***************************************************************************)
(* State.                                                                  *)
(***************************************************************************)
\* the requests in flight
ReqIds == { 1 }

VARIABLES
  h,           \* per request: the handler's and its script's state
  wins,        \* the open top-level windows, in EnumWindows order
  iconic,      \* the minimized windows
  showQ,       \* per window: ShowWindowAsync commands posted and not yet applied
  foreground,  \* the window that has the focus, or NoWindow
  monitors,    \* the attached monitors, in the order AllScreens reports them
  rect,        \* per window: its rectangle (Left, Top, Right, Bottom)
  sameFile,    \* windowsPath names the file that outputPath names
  noise,       \* what powershell.exe writes to stderr besides the script's errors
  dirExists,   \* the destination directory exists
  fileExists   \* a file exists at the output path

vars ==
  << h, wins, iconic, showQ, foreground, monitors, rect, sameFile, noise, dirExists, fileExists >>

NoImage == [kind |-> "none", x |-> 0, y |-> 0, w |-> 0, h |-> 0]
NoListArgs == [ filter |-> Undef, format |-> Undef ]
NoArgs == [ windowHandle |-> Undef, windowNumber |-> Undef, windowTitle |-> Undef,
            processName |-> Undef, filter |-> Undef, allowFocus |-> Undef,
            restoreIfMinimized |-> Undef, monitor |-> Undef ]

Idle ==
  [ pc |-> "idle", tool |-> "none", args |-> NoArgs, largs |-> NoListArgs, mode |-> "none",
    branch |-> "none", seen |-> << >>, list |-> << >>, listing |-> << >>,
    target |-> NoWindow, wasMinimized |-> FALSE, prevForeground |-> NoWindow,
    i |-> 0, pwOk |-> FALSE, bounds |-> CaptureBounds(<< 0, 0, 0, 0 >>),
    minFailed |-> FALSE, focusFailed |-> FALSE,
    screen |-> NoMonitor, thrown |-> "", count |-> 0,
    exit |-> 0, stderr |-> {}, stdout |-> "",
    image |-> NoImage, log |-> << >>, result |-> "none", errFrom |-> "" ]

Init ==
  /\ h = [r \in ReqIds |-> Idle]
  /\ \E d \in Desktops :
       /\ wins = d.wins
       /\ iconic = d.iconic \cap Range(d.wins)
       /\ monitors = d.monitors
       /\ fileExists = d.stale
       /\ foreground \in { NoWindow } \cup { hw \in Range(d.wins) \ d.iconic : hw = d.wins[1] }
  /\ showQ = [hw \in Handles |-> << >>]
  /\ rect = [hw \in Handles |-> WinTable[hw].rect]
  /\ sameFile = TRUE
  /\ noise = {}
  /\ dirExists = FALSE

Desktop == << wins, iconic, showQ, foreground, monitors, rect, sameFile, noise >>

\* the script ends with an uncaught throw: exit code 1, the error on stderr
Throw(st, msg, n) ==
  [st EXCEPT !.pc = "psExit", !.exit = 1, !.thrown = msg, !.count = n,
             !.stderr = @ \cup ThrowMarkers]

(***************************************************************************)
(* take_screenshot, up to the call of the script.                          *)
(***************************************************************************)
\* the handler is called with the arguments a
Receive(r, a) ==
  /\ h[r].pc = "idle"
  /\ h' = [h EXCEPT ![r] = [@ EXCEPT !.pc = "mkdir", !.tool = "take_screenshot", !.args = a]]
  /\ UNCHANGED << Desktop, dirExists, fileExists >>

\* await fs.mkdir(screenshotsDir, { recursive: true }), before the try block:
\* a failure rejects the handler's promise.  On success the handler builds
\* the script of its mode and starts powershell.exe.
Mkdir(r) ==
  /\ h[r].pc = "mkdir"
  /\ \/ /\ dirExists' = TRUE
        /\ h' = [h EXCEPT ![r] = [@ EXCEPT !.pc = "psStart", !.mode = ModeOf(h[r].args)]]
     \/ /\ ~dirExists
        /\ dirExists' = dirExists
        /\ h' = [h EXCEPT ![r] = [@ EXCEPT !.pc = "rejected", !.result = "rejected"]]
  /\ UNCHANGED << Desktop, fileExists >>

\* powershell.exe parses the script; a script that does not parse runs nothing
PsStart(r) ==
  /\ h[r].pc = "psStart"
  /\ h' = [h EXCEPT ![r] =
       IF ScriptParses(h[r].args)
         THEN [@ EXCEPT !.pc = IF h[r].mode = "window" THEN "psResolve"
                                ELSE IF h[r].mode = "all" THEN "psAll" ELSE "psMonitor",
                        !.stderr = @ \cup noise]
         ELSE [@ EXCEPT !.pc = "psExit", !.exit = 1, !.thrown = "ParseError",
                        !.stderr = @ \cup noise \cup ParseMarkers]]
  /\ UNCHANGED << Desktop, dirExists, fileExists >>

(***************************************************************************)
(* The window script, step by step.                                        *)
(***************************************************************************)
\* SetForegroundWindow(hw): an open window takes the focus
SetForeground(fg, hw, ws) == IF hw \in Range(ws) THEN hw ELSE fg

\* ShowWindowAsync(hw, cmd): the command is posted to an open window
PostShow(q, hw, cmd, ws) == IF hw \in Range(ws) THEN [q EXCEPT ![hw] = Append(@, cmd)] ELSE q

\* target resolution: Get-WindowsList and the if / elseif chain
PsResolve(r) ==
  /\ h[r].pc = "psResolve"
  /\ LET res == ResolveTarget(h[r].args, wins)
         st == [h[r] EXCEPT !.branch = BranchOf(h[r].args), !.seen = wins,
                           !.list = ListOf(h[r].args, wins)]
     IN h' = [h EXCEPT ![r] =
          IF res.thrown # "" THEN Throw(st, res.thrown, res.count)
          ELSE [st EXCEPT !.pc = "psCheckState", !.target = res.target]]
  /\ UNCHANGED << Desktop, dirExists, fileExists >>

\* minimized check, GetForegroundWindow, optional ShowWindowAsync(SW_RESTORE)
PsCheckState(r) ==
  /\ h[r].pc = "psCheckState"
  /\ LET st == h[r]
         wasMin == st.target \in iconic
     IN IF RefusesMinimized(st.args, wasMin)
          THEN /\ h' = [h EXCEPT ![r] =
                    Throw([@ EXCEPT !.wasMinimized = wasMin, !.log = Append(@, "IsIconic")],
                          "Target window is minimized", 0)]
               /\ showQ' = showQ
        ELSE IF RestoresWindow(st.args, wasMin)
          THEN /\ h' = [h EXCEPT ![r] =
                    [@ EXCEPT !.pc = "psPoll", !.wasMinimized = wasMin, !.i = 0,
                              !.prevForeground = foreground,
                              !.log = @ \o << "IsIconic", "GetForegroundWindow", "ShowRestore" >>]]
               /\ showQ' = PostShow(showQ, st.target, SW_RESTORE, wins)
        ELSE /\ h' = [h EXCEPT ![r] =
                    [@ EXCEPT !.pc = "psCapture", !.wasMinimized = wasMin,
                              !.prevForeground = foreground,
                              !.log = @ \o << "IsIconic", "GetForegroundWindow" >>]]
             /\ showQ' = showQ
  /\ UNCHANGED << wins, iconic, foreground, monitors, rect, sameFile, noise, dirExists, fileExists >>

\* (variant: the script gives up when the window is still minimized at the bound)
PsPollFailsAtBound(r) ==
  /\ h[r].pc = "psPoll"
  /\ h' = [h EXCEPT ![r] =
       IF h[r].i < PollMax /\ h[r].target \in iconic
         THEN [@ EXCEPT !.i = @ + 1]
       ELSE IF h[r].target \in iconic
         THEN Throw(@, "Window did not restore", 0)
       ELSE [@ EXCEPT !.pc = "psCapture", !.i = 0]]
  /\ UNCHANGED << Desktop, dirExists, fileExists >>

\* one turn of  for ($i=0; $i -lt 40; $i++) { if (-not IsIconic) { break }; Start-Sleep }
\* The counter is not read after the loop, and the model forgets it there.
PsPoll(r) ==
  /\ h[r].pc = "psPoll"
  /\ h' = [h EXCEPT ![r] =
       IF h[r].i < PollMax /\ h[r].target \in iconic
         THEN [@ EXCEPT !.i = @ + 1]
         ELSE [@ EXCEPT !.pc = "psCapture", !.i = 0]]
  /\ UNCHANGED << Desktop, dirExists, fileExists >>

\* GetWindowRect and the bounds; the bitmap; PrintWindow; then either the save of
\* the background image, or the start of the foreground fallback, or the throw
PsCapture(r) ==
  /\ h[r].pc = "psCapture"
  /\ LET st == h[r]
         b == CaptureBounds(WindowRect(st.target, wins, rect))
     IN \E pw \in BOOLEAN, saveOk \in BOOLEAN :
          \* PrintWindow needs a window and a device context of an allocated bitmap
          /\ pw => (st.target \in Range(wins) /\ BitmapOk(b))
          /\ saveOk => (pw /\ dirExists)
          /\ IF ~EntersFallback(pw)
               THEN /\ h' = [h EXCEPT ![r] =
                         [@ EXCEPT !.pc = "psRestoreState", !.bounds = b, !.pwOk = pw,
                            !.log = @ \o << "GetWindowRect", "PrintWindow", "Save" >>,
                            !.image = IF saveOk
                                        THEN [kind |-> "background", x |-> b.left,
                                              y |-> b.top, w |-> b.width, h |-> b.height]
                                        ELSE @,
                            !.stderr = IF saveOk THEN @ ELSE @ \cup CallFailedMarkers,
                            !.stdout = "Window screenshot saved successfully (background)"]]
                    /\ fileExists' = (fileExists \/ (saveOk /\ sameFile))
                    /\ foreground' = foreground
             ELSE IF FallbackAllowed(st.args)
               THEN /\ h' = [h EXCEPT ![r] =
                         [@ EXCEPT !.pc = "psCopy", !.bounds = b, !.pwOk = pw,
                            !.log = @ \o << "GetWindowRect" >>
                                      \o (IF BitmapOk(b) THEN << "PrintWindow" >> ELSE << >>)
                                      \o << "SetForegroundTarget" >>,
                            !.stderr = IF BitmapOk(b) THEN @ ELSE @ \cup CallFailedMarkers]]
                    /\ foreground' = SetForeground(foreground, st.target, wins)
                    /\ fileExists' = fileExists
             ELSE /\ h' = [h EXCEPT ![r] =
                       Throw([@ EXCEPT !.bounds = b, !.pwOk = pw,
                                !.log = @ \o << "GetWindowRect" >>
                                      \o (IF BitmapOk(b) THEN << "PrintWindow" >> ELSE << >>),
                                !.stderr = IF BitmapOk(b) THEN @ ELSE @ \cup CallFailedMarkers],
                             "Background capture produced an invalid image", 0)]
                  /\ foreground' = foreground
                  /\ fileExists' = fileExists
  /\ UNCHANGED << wins, iconic, showQ, monitors, rect, sameFile, noise, dirExists >>

\* after Start-Sleep -Milliseconds 200: CopyFromScreen of the bounds, and Save
PsCopy(r) ==
  /\ h[r].pc = "psCopy"
  /\ LET st == h[r]
         b == st.bounds
     IN \E saveOk \in BOOLEAN :
          /\ saveOk => (BitmapOk(b) /\ dirExists)
          /\ h' = [h EXCEPT ![r] =
               [@ EXCEPT !.pc = "psRestoreState",
                  !.log = @ \o << "Sleep" >>
                            \o (IF BitmapOk(b) THEN << "CopyFromScreen", "Save" >> ELSE << >>),
                  !.image = IF saveOk
                              THEN [kind |-> "screen", x |-> b.left, y |-> b.top,
                                    w |-> b.width, h |-> b.height]
                              ELSE @,
                  !.stderr = IF saveOk THEN @ ELSE @ \cup CallFailedMarkers,
                  !.stdout = "Window screenshot saved successfully (foreground fallback)"]]
          /\ fileExists' = (fileExists \/ (saveOk /\ sameFile))
  /\ UNCHANGED << Desktop, dirExists >>

\* ShowWindowAsync and SetForegroundWindow return false for a handle that
\* names no open window; the script discards what they return ([void])
CallFails(hw, ws) == hw \notin Range(ws)

\* (variant: a restoration call that returns false ends the script with a throw)
PsRestoreStateStrict(r) ==
  /\ h[r].pc = "psRestoreState"
  /\ LET st == h[r]
         minF == ReMinimizes(st.wasMinimized) /\ CallFails(st.target, wins)
         focF == RestoresFocus(st.prevForeground) /\ CallFails(st.prevForeground, wins)
     IN /\ h' = [h EXCEPT ![r] =
             IF minF \/ focF
               THEN Throw([@ EXCEPT !.minFailed = minF, !.focusFailed = focF],
                          "Restore failed", 0)
               ELSE [@ EXCEPT !.pc = "psExit", !.exit = 0,
                       !.log = @ \o (IF ReMinimizes(st.wasMinimized)
                                       THEN << "ShowMinimize" >> ELSE << >>)
                                 \o (IF RestoresFocus(st.prevForeground)
                                       THEN << "SetForegroundPrev" >> ELSE << >>)]]
        /\ showQ' = IF ReMinimizes(st.wasMinimized)
                      THEN PostShow(showQ, st.target, SW_MINIMIZE, wins)
                      ELSE showQ
        /\ foreground' = IF RestoresFocus(st.prevForeground)
                           THEN SetForeground(foreground, st.prevForeground, wins)
                           ELSE foreground
  /\ UNCHANGED << wins, iconic, monitors, rect, sameFile, noise, dirExists, fileExists >>

\* re-minimize and focus restore; the script ends
PsRestoreState(r) ==
  /\ h[r].pc = "psRestoreState"
  /\ LET st == h[r]
     IN /\ h' = [h EXCEPT ![r] =
             [@ EXCEPT !.pc = "psExit", !.exit = 0,
                !.minFailed = ReMinimizes(st.wasMinimized) /\ CallFails(st.target, wins),
                !.focusFailed = RestoresFocus(st.prevForeground)
                                  /\ CallFails(st.prevForeground, wins),
                !.log = @ \o (IF ReMinimizes(st.wasMinimized) THEN << "ShowMinimize" >> ELSE << >>)
                          \o (IF RestoresFocus(st.prevForeground)
                                THEN << "SetForegroundPrev" >> ELSE << >>)]]
        /\ showQ' = IF ReMinimizes(st.wasMinimized)
                      THEN PostShow(showQ, st.target, SW_MINIMIZE, wins)
                      ELSE showQ
        /\ foreground' = IF RestoresFocus(st.prevForeground)
                           THEN SetForeground(foreground, st.prevForeground, wins)
                           ELSE foreground
  /\ UNCHANGED << wins, iconic, monitors, rect, sameFile, noise, dirExists, fileExists >>

\* the desktop applies a posted ShowWindowAsync command: SW_RESTORE shows and
\* activates the window, SW_MINIMIZE minimizes it and takes the focus from it
OsShow(hw) ==
  /\ showQ[hw] # << >>
  /\ showQ' = [showQ EXCEPT ![hw] = Tail(@)]
  /\ IF Head(showQ[hw]) = SW_RESTORE
       THEN /\ iconic' = iconic \ { hw }
            /\ foreground' = hw
       ELSE /\ iconic' = iconic \cup { hw }
            /\ foreground' = IF foreground = hw THEN NoWindow ELSE foreground
  /\ UNCHANGED << h, wins, monitors, rect, sameFile, noise, dirExists, fileExists >>

(***************************************************************************)
(* The all-monitors script and the single-monitor script.                  *)
(***************************************************************************)
\* CopyFromScreen of the virtual screen, and Save
PsAll(r) ==
  /\ h[r].pc = "psAll"
  /\ LET v == VirtualScreen(monitors)
     IN \E saveOk \in BOOLEAN :
          /\ saveOk => dirExists
          /\ h' = [h EXCEPT ![r] =
               [@ EXCEPT !.pc = "psExit", !.exit = 0,
                  !.log = @ \o << "CopyFromScreen", "Save" >>,
                  !.image = IF saveOk
                              THEN [kind |-> "all", x |-> v.x, y |-> v.y, w |-> v.w, h |-> v.h]
                              ELSE @,
                  !.stderr = IF saveOk THEN @ ELSE @ \cup CallFailedMarkers,
                  !.stdout = "Screenshot saved successfully"]]
          /\ fileExists' = (fileExists \/ (saveOk /\ sameFile))
  /\ UNCHANGED << Desktop, dirExists >>

\* sort of the monitors, resolution of '${monitor}', CopyFromScreen of the
\* target's bounds, and Save
PsMonitor(r) ==
  /\ h[r].pc = "psMonitor"
  /\ \E screens \in SortedScreens(monitors), saveOk \in BOOLEAN :
       LET res == ResolveMonitor(h[r].args, monitors, screens)
           m == MonTable[res.target]
       IN IF res.thrown # ""
            THEN /\ ~saveOk
                 /\ h' = [h EXCEPT ![r] = Throw(@, res.thrown, res.count)]
                 /\ fileExists' = fileExists
            ELSE /\ saveOk => dirExists
                 /\ h' = [h EXCEPT ![r] =
                      [@ EXCEPT !.pc = "psExit", !.exit = 0, !.screen = res.target,
                         !.log = @ \o << "CopyFromScreen", "Save" >>,
                         !.image = IF saveOk
                                     THEN [kind |-> "monitor", x |-> m.x, y |-> m.y,
                                           w |-> m.w, h |-> m.h]
                                     ELSE @,
                         !.stderr = IF saveOk THEN @ ELSE @ \cup CallFailedMarkers,
                         !.stdout = "Screenshot of monitor saved successfully"]]
                 /\ fileExists' = (fileExists \/ (saveOk /\ sameFile))
  /\ UNCHANGED << Desktop, dirExists >>

(***************************************************************************)
(* list_windows.                                                           *)
(***************************************************************************)
\* the handler is called for list_windows with the arguments a
ReceiveList(r, a) ==
  /\ h[r].pc = "idle"
  /\ h' = [h EXCEPT ![r] = [@ EXCEPT !.pc = "lsStart", !.tool = "list_windows", !.largs = a]]
  /\ UNCHANGED << Desktop, dirExists, fileExists >>

\* powershell.exe runs the list script: EnumWindows fills $results and the
\* lines are printed; a script that does not parse prints nothing
LsRun(r) ==
  /\ h[r].pc = "lsStart"
  /\ h' = [h EXCEPT ![r] =
       IF ListScriptParses(h[r].largs)
         THEN [@ EXCEPT !.pc = "lsExit", !.exit = 0, !.branch = "list", !.seen = wins,
                 !.list = EnumResults(wins, lsFilter(h[r].largs)),
                 !.listing = ListLines(EnumResults(wins, lsFilter(h[r].largs)),
                                       FormatOf(h[r].largs))]
         ELSE [@ EXCEPT !.pc = "lsExit", !.exit = 1, !.thrown = "ParseError",
                        !.stderr = @ \cup ParseMarkers]]
  /\ UNCHANGED << Desktop, dirExists, fileExists >>

\* await execAsync settles: the lines (or 'No windows found') are returned; a
\* non-zero exit code rejects and the catch block returns the error payload
LsDone(r) ==
  /\ h[r].pc = "lsExit"
  /\ h' = [h EXCEPT ![r] =
       IF h[r].exit # 0
         THEN [@ EXCEPT !.pc = "done", !.result = "error", !.errFrom = "exec"]
         ELSE [@ EXCEPT !.pc = "done", !.result = "success",
                 !.stdout = IF h[r].listing = << >> THEN "No windows found" ELSE "lines"]]
  /\ UNCHANGED << Desktop, dirExists, fileExists >>

(***************************************************************************)
(* take_screenshot, after the script.                                      *)
(***************************************************************************)
\* await execAsync(...) settles: a non-zero exit code rejects, and the catch
\* block returns the error payload; otherwise hasRealError decides
ExecDone(r) ==
  /\ h[r].pc = "psExit"
  /\ h' = [h EXCEPT ![r] =
       IF h[r].exit # 0
         THEN [@ EXCEPT !.pc = "done", !.result = "error", !.errFrom = "exec"]
       ELSE IF hasRealError(h[r].stderr)
         THEN [@ EXCEPT !.pc = "done", !.result = "error", !.errFrom = "stderr"]
       ELSE [@ EXCEPT !.pc = "access"]]
  /\ UNCHANGED << Desktop, dirExists, fileExists >>

\* (variant: the file is not looked for)
AccessUnchecked(r) ==
  /\ h[r].pc = "access"
  /\ h' = [h EXCEPT ![r] = [@ EXCEPT !.pc = "done", !.result = "success"]]
  /\ UNCHANGED << Desktop, dirExists, fileExists >>

\* await fs.access(outputPath), then the success payload; a missing file is
\* caught and returned as the error payload
Access(r) ==
  /\ h[r].pc = "access"
  /\ h' = [h EXCEPT ![r] =
       IF fileExists
         THEN [@ EXCEPT !.pc = "done", !.result = "success"]
         ELSE [@ EXCEPT !.pc = "done", !.result = "error", !.errFrom = "access"]]
  /\ UNCHANGED << Desktop, dirExists, fileExists >>

Next ==
  \/ \E r \in ReqIds, a \in Requests : Receive(r, a)
  \/ \E r \in ReqIds, a \in ListRequests : ReceiveList(r, a)
  \/ \E r \in ReqIds : LsRun(r)
  \/ \E r \in ReqIds : LsDone(r)
  \/ \E r \in ReqIds : Mkdir(r)
  \/ \E r \in ReqIds : PsStart(r)
  \/ \E r \in ReqIds : PsResolve(r)
  \/ \E r \in ReqIds : PsCheckState(r)
  \/ \E r \in ReqIds : PsPoll(r)
  \/ \E r \in ReqIds : PsCapture(r)
  \/ \E r \in ReqIds : PsCopy(r)
  \/ \E r \in ReqIds : PsRestoreState(r)
  \/ \E r \in ReqIds : PsAll(r)
  \/ \E r \in ReqIds : PsMonitor(r)
  \/ \E r \in ReqIds : ExecDone(r)
  \/ \E r \in ReqIds : Access(r)
  \/ \E hw \in Handles : OsShow(hw)

Spec == Init /\ [][Next]_vars

(***************************************************************************)
(* Window captures over a range of window rectangles.                      *)
(***************************************************************************)
\* rectangles (Left, Top, Right, Bottom) with Left < Right and Top < Bottom:
\* edges on both sides of the origin, narrow and wide
Rects ==
  { << l, t, l + w, t + w2 >> :
      l \in -MaxCoord..MaxCoord, t \in -MaxCoord..MaxCoord,
      w \in { 1, MaxCoord }, w2 \in { 1, MaxCoord } }

\* a request for the window with handle 3
HandleRequest == [NoArgs EXCEPT !.windowHandle = Some(<< "0", "x", "3" >>)]

InitBounds ==
  /\ h = [r \in ReqIds |-> Idle]
  /\ wins = << 1, 2, 3 >>
  /\ iconic \in { {}, { 3 } }
  /\ monitors = << 1, 2 >>
  /\ fileExists = FALSE
  /\ foreground = NoWindow
  /\ showQ = [hw \in Handles |-> << >>]
  /\ \E rc \in Rects : rect = [hw \in Handles |-> IF hw = 3 THEN rc ELSE WinTable[hw].rect]
  /\ sameFile = TRUE
  /\ noise = {}
  /\ dirExists = FALSE

NextBounds ==
  \/ \E r \in ReqIds : Receive(r, HandleRequest)
  \/ \E r \in ReqIds : Mkdir(r)
  \/ \E r \in ReqIds : PsStart(r)
  \/ \E r \in ReqIds : PsResolve(r)
  \/ \E r \in ReqIds : PsCheckState(r)
  \/ \E r \in ReqIds : PsPoll(r)
  \/ \E r \in ReqIds : PsCapture(r)
  \/ \E r \in ReqIds : PsCopy(r)
  \/ \E r \in ReqIds : PsRestoreState(r)
  \/ \E r \in ReqIds : ExecDone(r)
  \/ \E r \in ReqIds : Access(r)
  \/ \E hw \in Handles : OsShow(hw)

SpecBounds == InitBounds /\ [][NextBounds]_vars

(***************************************************************************)
(* Outcomes: what the error stream holds, and where the image file lands.  *)
(***************************************************************************)
\* what powershell.exe can write to stderr while the script still ends with
\* exit code 0: nothing, progress records, or the text of an error that did
\* not end the script
NoiseSets ==
  { {}, { "CLIXML" }, { "throw" }, { "Exception" }, { "methodnotfound" },
    { "does not contain a method named" }, { "not found" }, { "Error" },
    { "Error", "ErrorId" } }

OutcomeRequests ==
  { HandleRequest, NoArgs,
    [NoArgs EXCEPT !.monitor = Some(MonNum(2))],
    [NoArgs EXCEPT !.monitor = Some(MonStr(<< "z" >>))] }

InitOutcome ==
  /\ h = [r \in ReqIds |-> Idle]
  /\ wins = << 1, 2, 3 >>
  /\ iconic = {}
  /\ monitors = << 1, 2 >>
  /\ fileExists \in BOOLEAN
  /\ foreground \in { NoWindow, 1 }
  /\ showQ = [hw \in Handles |-> << >>]
  /\ rect = [hw \in Handles |-> WinTable[hw].rect]
  /\ sameFile \in BOOLEAN
  /\ noise \in NoiseSets
  /\ dirExists = FALSE

NextOutcome ==
  \/ \E r \in ReqIds, a \in OutcomeRequests : Receive(r, a)
  \/ \E r \in ReqIds : Mkdir(r)
  \/ \E r \in ReqIds : PsStart(r)
  \/ \E r \in ReqIds : PsResolve(r)
  \/ \E r \in ReqIds : PsCheckState(r)
  \/ \E r \in ReqIds : PsCapture(r)
  \/ \E r \in ReqIds : PsCopy(r)
  \/ \E r \in ReqIds : PsRestoreState(r)
  \/ \E r \in ReqIds : PsAll(r)
  \/ \E r \in ReqIds : PsMonitor(r)
  \/ \E r \in ReqIds : ExecDone(r)
  \/ \E r \in ReqIds : Access(r)

SpecOutcome == InitOutcome /\ [][NextOutcome]_vars

(***************************************************************************)
(* Two callers.  The handler is an async function: the server calls it for *)
(* every request that arrives, and a call that waits at an await (mkdir,   *)
(* execAsync, access) does not keep the next call from starting.  Between  *)
(* the calls a window can open or close.                                   *)
(***************************************************************************)
Callers == { 1, 2 }

\* the window orders of a desktop on which window 3 opens and closes
TwoOrders == { << 1, 2, 3 >>, << 1, 2 >> }

TwoRequests ==
  { HandleRequest,
    [NoArgs EXCEPT !.windowNumber = Some(1)],
    [NoArgs EXCEPT !.windowNumber = Some(2), !.filter = Some(<< "N" >>)],
    [NoArgs EXCEPT !.windowNumber = Some(1), !.filter = Some(<< "a", Quote >>)],
    NoArgs,
    [NoArgs EXCEPT !.monitor = Some(MonNum(2))] }

TwoListRequests ==
  [ filter : { Undef, Some(<< "N" >>), Some(<< "a", Quote >>) }, format : { Undef } ]

\* a top-level window opens or closes
WindowChange ==
  /\ \E ws \in TwoOrders :
       /\ ws # wins
       /\ wins' = ws
       /\ iconic' = iconic \cap Range(ws)
       /\ showQ' = [hw \in Handles |-> IF hw \in Range(ws) THEN showQ[hw] ELSE << >>]
       /\ foreground' = IF foreground \in Range(ws) THEN foreground ELSE NoWindow
  /\ UNCHANGED << h, monitors, rect, sameFile, noise, dirExists, fileExists >>

InitTwo ==
  /\ h = [r \in Callers |-> Idle]
  /\ wins = << 1, 2, 3 >>
  /\ iconic \in { {}, { 3 } }
  /\ monitors = << 1, 2 >>
  /\ fileExists = FALSE
  /\ foreground = NoWindow
  /\ showQ = [hw \in Handles |-> << >>]
  /\ rect = [hw \in Handles |-> WinTable[hw].rect]
  /\ sameFile = TRUE
  /\ noise = {}
  /\ dirExists = FALSE

NextTwo ==
  \/ \E r \in Callers, a \in TwoRequests : Receive(r, a)
  \/ \E r \in Callers, a \in TwoListRequests : ReceiveList(r, a)
  \/ \E r \in Callers : LsRun(r)
  \/ \E r \in Callers : LsDone(r)
  \/ \E r \in Callers : Mkdir(r)
  \/ \E r \in Callers : PsStart(r)
  \/ \E r \in Callers : PsResolve(r)
  \/ \E r \in Callers : PsCheckState(r)
  \/ \E r \in Callers : PsPoll(r)
  \/ \E r \in Callers : PsCapture(r)
  \/ \E r \in Callers : PsCopy(r)
  \/ \E r \in Callers : PsRestoreState(r)
  \/ \E r \in Callers : PsAll(r)
  \/ \E r \in Callers : PsMonitor(r)
  \/ \E r \in Callers : ExecDone(r)
  \/ \E r \in Callers : Access(r)
  \/ \E hw \in Handles : OsShow(hw)
  \/ WindowChange

SpecTwo == InitTwo /\ [][NextTwo]_vars

(***************************************************************************)
(* Vocabulary of the properties.                                           *)
(***************************************************************************)
\* the script called the OS operation op
InLog(r, op) == \E i \in DOMAIN h[r].log : h[r].log[i] = op

\* position of the last call of op in the script's run (0: none)
LastAt(r, op) ==
  IF InLog(r, op)
    THEN CHOOSE i \in DOMAIN h[r].log :
           h[r].log[i] = op /\ \A j \in DOMAIN h[r].log : h[r].log[j] = op => i >= j
    ELSE 0

\* a capture step happened: background capture, screen copy or save
Captured(r) == InLog(r, "PrintWindow") \/ InLog(r, "CopyFromScreen") \/ InLog(r, "Save")

\* an image file was written by this request
ImageSaved(r) == h[r].image.kind # "none"

\* the handler has returned its payload
Returned(r) == h[r].pc = "done"

\* the script has ended (and with it every step of the capture)
ScriptEnded(r) == h[r].pc \in { "psExit", "access", "done" }

\* the script is past target resolution (or never had one to run)
PastResolve(r) == h[r].pc \notin { "idle", "mkdir", "psStart", "psResolve", "rejected" }

\* the filter a request carries ('' when omitted)
FilterOf(a) == IF IsDef(a.filter) THEN a.filter[1] ELSE Empty

\* f is contained in t, case-insensitively
ContainsCI(t, f) == Contains(ToLower(t), ToLower(f))

\* window hw belongs to the enumeration for the filter f: it is visible, has
\* a title, and f is empty or contained in its title or in the name of its
\* process (empty when the process cannot be queried)
Enumerable(hw, f) ==
  /\ WinTable[hw].visible
  /\ WinTable[hw].title # Empty
  /\ \/ f = Empty
     \/ ContainsCI(WinTable[hw].title, f)
     \/ WinTable[hw].queryable /\ ContainsCI(WinTable[hw].process, f)

\* the enumeration of the open windows ws for the filter f, in their order
RECURSIVE EnumerationFor(_, _)
EnumerationFor(ws, f) ==
  IF ws = << >> THEN << >>
  ELSE (IF Enumerable(ws[1], f) THEN << ws[1] >> ELSE << >>) \o EnumerationFor(Tail(ws), f)

\* the filtered enumeration a request's selector is to be resolved against
Enumeration(a) == EnumerationFor(wins, FilterOf(a))

\* the given process name without a trailing ".exe"
StripExeSuffix(t) ==
  IF Len(t) >= 4 /\ ToLower(SubSeq(t, Len(t) - 3, Len(t))) = DotExe
    THEN SubSeq(t, 1, Len(t) - 4)
    ELSE t

\* the failures of target resolution
ResolutionErrors ==
  { "Invalid windowNumber", "No window found with title containing",
    "No window found for process", "No target window resolved" }

(***************************************************************************)
(* C1: a window request whose target is minimized when its state is        *)
(* checked and whose restoreIfMinimized is false or omitted ends in the    *)
(* failure "Target window is minimized", and no capture step happens: no   *)
(* un-minimize request, no background capture, no screen copy, no save.    *)
(***************************************************************************)
C1_MinimizedIsRefused ==
  \A r \in ReqIds :
    (h[r].mode = "window" /\ h[r].wasMinimized /\ ~JsTruthyBool(h[r].args.restoreIfMinimized))
      => /\ ~InLog(r, "ShowRestore")
         /\ ~Captured(r)
         /\ ~ImageSaved(r)
         /\ h[r].thrown = "Target window is minimized"
         /\ Returned(r) => h[r].result = "error"

(***************************************************************************)
(* C2: a window request in which background capture reports failure and    *)
(* allowFocus is false or omitted fails with the error that asks for       *)
(* allowFocus: true; the target is never brought to the foreground, no     *)
(* screen copy is made and no image file is saved.                         *)
(***************************************************************************)
BackgroundFailed(r) ==
  /\ h[r].mode = "window"
  /\ InLog(r, "GetWindowRect")
  /\ ~h[r].pwOk

C2_NoFallbackWithoutAllowFocus ==
  \A r \in ReqIds :
    (BackgroundFailed(r) /\ ~JsTruthyBool(h[r].args.allowFocus))
      => /\ ~InLog(r, "SetForegroundTarget")
         /\ ~InLog(r, "CopyFromScreen")
         /\ ~ImageSaved(r)
         /\ h[r].thrown = "Background capture produced an invalid image"
         /\ Returned(r) => h[r].result = "error"

(***************************************************************************)
(* C3: when processName is the only selector supplied, the target is the   *)
(* first window of the filtered enumeration whose process name contains    *)
(* the name without its trailing ".exe"; when no process name matches, the *)
(* request fails with a resolution error and saves no image.               *)
(***************************************************************************)
ProcessOnly(a) ==
  /\ ~IsDef(a.windowHandle) /\ ~IsDef(a.windowNumber) /\ ~IsDef(a.windowTitle)
  /\ JsTruthyStr(a.processName)

C3_ProcessNameOnly ==
  \A r \in ReqIds :
    (PastResolve(r) /\ ProcessOnly(h[r].args))
      => LET want == FirstByProcess(Enumeration(h[r].args),
                                    StripExeSuffix(h[r].args.processName[1]))
         IN IF want = NoWindow
              THEN /\ h[r].thrown \in ResolutionErrors
                   /\ ~ImageSaved(r)
                   /\ Returned(r) => h[r].result = "error"
              ELSE h[r].target = want

(***************************************************************************)
(* C4: with windowNumber = k as the only selector supplied and count the   *)
(* length of the filtered enumeration: if 1 <= k <= count the target is    *)
(* the k-th element; otherwise (k = 0 or k > count) the request fails with *)
(* "Invalid windowNumber" naming 1..count, nothing is captured and no      *)
(* image is saved.                                                         *)
(***************************************************************************)
NumberOnly(a) ==
  /\ ~IsDef(a.windowHandle) /\ ~IsDef(a.windowTitle) /\ ~IsDef(a.processName)
  /\ IsDef(a.windowNumber)

C4_WindowNumberOnly ==
  \A r \in ReqIds :
    (PastResolve(r) /\ NumberOnly(h[r].args))
      => LET k == h[r].args.windowNumber[1]
             list == Enumeration(h[r].args)
         IN IF 1 <= k /\ k <= Len(list)
              THEN h[r].target = list[k]
              ELSE /\ h[r].thrown = "Invalid windowNumber"
                   /\ h[r].count = Len(list)
                   /\ ~Captured(r)
                   /\ ~ImageSaved(r)
                   /\ Returned(r) => h[r].result = "error"

(***************************************************************************)
(* C5: when two or more selectors are supplied, the one honored is the     *)
(* first supplied of handle, number, title, process name, and the outcome  *)
(* is that selector's alone: the handle verbatim, the k-th element, or the *)
(* first title match; the other selectors' values change nothing.          *)
(***************************************************************************)
SuppliedCount(a) ==
  (IF JsTruthyStr(a.windowHandle) THEN 1 ELSE 0) + (IF IsDef(a.windowNumber) THEN 1 ELSE 0)
  + (IF JsTruthyStr(a.windowTitle) THEN 1 ELSE 0) + (IF JsTruthyStr(a.processName) THEN 1 ELSE 0)

\* the target under the documented priority; NoWindow when the selector fails
ByPriority(a) ==
  LET list == Enumeration(a)
  IN IF JsTruthyStr(a.windowHandle) THEN ParseHandle(a.windowHandle[1])
     ELSE IF IsDef(a.windowNumber) THEN
       IF 1 <= a.windowNumber[1] /\ a.windowNumber[1] <= Len(list)
         THEN list[a.windowNumber[1]] ELSE NoWindow
     ELSE IF JsTruthyStr(a.windowTitle) THEN FirstByTitle(list, a.windowTitle[1])
     ELSE FirstByProcess(list, StripExeSuffix(a.processName[1]))

C5_SelectorPriority ==
  \A r \in ReqIds :
    (PastResolve(r) /\ SuppliedCount(h[r].args) >= 2)
      => IF ByPriority(h[r].args) = NoWindow
           THEN /\ h[r].thrown # ""
                /\ ~Captured(r)
                /\ Returned(r) => h[r].result = "error"
           ELSE h[r].target = ByPriority(h[r].args)

(***************************************************************************)
(* C6: when the title substring is the selector in effect (no handle, no   *)
(* number), the target is the first element of the filtered enumeration    *)
(* whose title contains it case-insensitively; when none does, the request *)
(* fails in the script and captures nothing.                               *)
(***************************************************************************)
TitleInEffect(a) ==
  /\ ~IsDef(a.windowHandle) /\ ~IsDef(a.windowNumber)
  /\ JsTruthyStr(a.windowTitle)

C6_TitleSubstring ==
  \A r \in ReqIds :
    (PastResolve(r) /\ TitleInEffect(h[r].args))
      => LET want == FirstByTitle(Enumeration(h[r].args), h[r].args.windowTitle[1])
         IN IF want = NoWindow
              THEN /\ h[r].thrown # ""
                   /\ ~Captured(r)
                   /\ Returned(r) => h[r].result = "error"
              ELSE h[r].target = want

(***************************************************************************)
(* C7: every failure of a request is returned as an error payload; the     *)
(* handler's promise is never rejected.                                    *)
(***************************************************************************)
C7_HandlerNeverRejects ==
  \A r \in ReqIds : h[r].pc # "rejected" /\ h[r].result # "rejected"

(***************************************************************************)
(* C8: in a window request whose target was minimized, whose               *)
(* restoreIfMinimized is true and whose script asked the window to         *)
(* un-minimize, the script never ends without having asked the target to   *)
(* re-minimize after that; once the desktop has applied the posted         *)
(* commands the target is minimized again.                                 *)
(***************************************************************************)
RestoredForCapture(r) ==
  /\ h[r].mode = "window"
  /\ h[r].wasMinimized
  /\ JsTruthyBool(h[r].args.restoreIfMinimized)
  /\ InLog(r, "ShowRestore")

C8_ReMinimizedAfterRestore ==
  \A r \in ReqIds :
    (RestoredForCapture(r) /\ ScriptEnded(r))
      => /\ InLog(r, "ShowMinimize")
         /\ LastAt(r, "ShowMinimize") > LastAt(r, "ShowRestore")
         /\ showQ[h[r].target] = << >> => h[r].target \in iconic

\* a restored window was captured, the request succeeded, and the window is
\* minimized again
C8_Witness ==
  \E r \in ReqIds :
    /\ RestoredForCapture(r)
    /\ Returned(r) /\ h[r].result = "success" /\ ImageSaved(r)
    /\ InLog(r, "ShowMinimize")
    /\ showQ[h[r].target] = << >> /\ h[r].target \in iconic

(***************************************************************************)
(* C9: with no window selector supplied and a numeric monitor argument i   *)
(* outside 1..n (n monitors; i = 0 included), the script fails with        *)
(* "Monitor not found" naming 1..n, captures nothing and saves no image.   *)
(***************************************************************************)
NoSelector(a) ==
  /\ ~IsDef(a.windowHandle) /\ ~IsDef(a.windowNumber)
  /\ ~IsDef(a.windowTitle) /\ ~IsDef(a.processName)

NumericMonitor(a) == IsDef(a.monitor) /\ a.monitor[1].isNum

C9_MonitorOrdinalRange ==
  \A r \in ReqIds :
    (ScriptEnded(r) /\ NoSelector(h[r].args) /\ NumericMonitor(h[r].args)
       /\ (h[r].args.monitor[1].n < 1 \/ h[r].args.monitor[1].n > Len(monitors)))
      => /\ h[r].thrown = "Monitor not found"
         /\ h[r].count = Len(monitors)
         /\ ~Captured(r)
         /\ ~ImageSaved(r)
         /\ Returned(r) => h[r].result = "error"

(***************************************************************************)
(* C10: in the single-monitor mode, a valid ordinal i resolves to a        *)
(* monitor that is i-th in ascending order of X origin, whatever the order *)
(* in which the monitors are reported; "primary" resolves to the           *)
(* primary-flagged monitor; the script does not fail at resolution, and    *)
(* the saved image has exactly the resolved monitor's origin, width and    *)
(* height.                                                                 *)
(***************************************************************************)
\* the ordinal a request's monitor argument denotes (0: none)
OrdinalOf(a) ==
  IF ~IsDef(a.monitor) THEN 0
  ELSE IF a.monitor[1].isNum THEN a.monitor[1].n
  ELSE IF AllDigits(a.monitor[1].text) THEN ParseBase(a.monitor[1].text, 10)
  ELSE 0

IsPrimaryArg(a) ==
  IsDef(a.monitor) /\ ~a.monitor[1].isNum /\ a.monitor[1].text = PrimaryText

\* monitor m is i-th in ascending order of X among the attached monitors
IsIthByX(m, i) ==
  /\ m \in Range(monitors)
  /\ Cardinality({ k \in Range(monitors) : MonTable[k].x < MonTable[m].x }) < i
  /\ i <= Cardinality({ k \in Range(monitors) : MonTable[k].x <= MonTable[m].x })

C10_MonitorBounds ==
  \A r \in ReqIds :
    (h[r].mode = "monitor" /\ ScriptEnded(r))
      => LET a == h[r].args
             m == h[r].screen
             shot == ImageSaved(r) =>
                       h[r].image = [kind |-> "monitor", x |-> MonTable[m].x,
                                     y |-> MonTable[m].y, w |-> MonTable[m].w,
                                     h |-> MonTable[m].h]
         IN /\ (1 <= OrdinalOf(a) /\ OrdinalOf(a) <= Len(monitors))
                 => (h[r].thrown = "" /\ IsIthByX(m, OrdinalOf(a)) /\ shot)
            /\ IsPrimaryArg(a)
                 => (h[r].thrown = "" /\ m \in Range(monitors) /\ MonTable[m].primary /\ shot)

\* the second monitor by X was captured though it is reported first, and the
\* request succeeded
C10_Witness ==
  \E r \in ReqIds :
    /\ h[r].mode = "monitor" /\ Returned(r) /\ h[r].result = "success"
    /\ OrdinalOf(h[r].args) = 2
    /\ Len(monitors) = 3 /\ monitors[1] = h[r].screen
    /\ h[r].image.kind = "monitor" /\ h[r].image.w = MonTable[h[r].screen].w

(***************************************************************************)
(* C11: every window an enumerator returns for the filter f is visible,    *)
(* has a non-empty title, and has f contained case-insensitively in its    *)
(* title or in its process name; the enumeration for f is a subsequence of *)
(* the enumeration for the empty filter (same windows, same relative       *)
(* order); a visible, titled window whose process cannot be queried is     *)
(* listed whenever its title passes the filter, with an empty process name.*)
(***************************************************************************)
\* s is a subsequence of t: the elements of s occur in t in the same order
RECURSIVE IsSubSeq(_, _)
IsSubSeq(s, t) ==
  IF s = << >> THEN TRUE
  ELSE IF t = << >> THEN FALSE
  ELSE IF s[1] = t[1] THEN IsSubSeq(Tail(s), Tail(t))
  ELSE IsSubSeq(s, Tail(t))

\* the request has run an enumeration (list_windows, or a selector branch),
\* over the windows h[r].seen
Enumerated(r) == h[r].branch \in { "list", "number", "title", "process" }

\* the filter the request gave ('' when omitted)
GivenFilter(r) ==
  IF h[r].tool = "list_windows"
    THEN (IF IsDef(h[r].largs.filter) THEN h[r].largs.filter[1] ELSE Empty)
    ELSE FilterOf(h[r].args)

\* what the same enumerator returns for the empty filter
Unfiltered(r) ==
  IF h[r].tool = "list_windows"
    THEN EnumResults(h[r].seen, Empty)
    ELSE GetWindowsList(h[r].seen, Empty)

C11_EnumerationFilter ==
  \A r \in ReqIds :
    Enumerated(r)
      => LET f == GivenFilter(r)
             list == h[r].list
         IN /\ \A i \in DOMAIN list :
                 /\ WinTable[list[i]].visible
                 /\ WinTable[list[i]].title # Empty
                 /\ \/ ContainsCI(WinTable[list[i]].title, f)
                    \/ WinTable[list[i]].queryable /\ ContainsCI(WinTable[list[i]].process, f)
                    \/ ~WinTable[list[i]].queryable /\ f = Empty
            /\ IsSubSeq(list, Unfiltered(r))
            /\ \A hw \in Range(h[r].seen) :
                 ( /\ WinTable[hw].visible /\ WinTable[hw].title # Empty
                   /\ ~WinTable[hw].queryable
                   /\ ContainsCI(WinTable[hw].title, f) )
                   => /\ hw \in Range(list)
                      /\ \A k \in DOMAIN h[r].listing :
                           h[r].listing[k].hw = hw => h[r].listing[k].process = Empty

(***************************************************************************)
(* C12: for the target's rectangle (L, T, R, B), negative L and T          *)
(* included, the capture bounds the script computes with the padding 10    *)
(* are left = max(0, L-10), top = max(0, T-10), width = (R+10) - left,     *)
(* height = (B+10) - top; left and top are never negative.                 *)
(***************************************************************************)
\* the script has computed the bounds of an open target window
BoundsComputed(r) ==
  h[r].mode = "window" /\ InLog(r, "GetWindowRect") /\ h[r].target \in Range(wins)

C12_CaptureBounds ==
  \A r \in ReqIds :
    BoundsComputed(r)
      => LET L == rect[h[r].target][1]
             T == rect[h[r].target][2]
             R == rect[h[r].target][3]
             B == rect[h[r].target][4]
             left == IF L - 10 > 0 THEN L - 10 ELSE 0
             top  == IF T - 10 > 0 THEN T - 10 ELSE 0
         IN /\ h[r].bounds.left = left
            /\ h[r].bounds.top = top
            /\ h[r].bounds.width = (R + 10) - left
            /\ h[r].bounds.height = (B + 10) - top
            /\ h[r].bounds.left >= 0 /\ h[r].bounds.top >= 0

\* the bounds of a window whose left edge is off the screen and whose top edge
\* is further than the padding from the origin were computed and captured
C12_Witness ==
  \E r \in ReqIds :
    /\ BoundsComputed(r) /\ ImageSaved(r)
    /\ rect[h[r].target][1] < 0 /\ rect[h[r].target][2] > 10
    /\ h[r].bounds.left = 0 /\ h[r].bounds.top = rect[h[r].target][2] - 10
    /\ h[r].image.w = rect[h[r].target][3] + 10

(***************************************************************************)
(* C13: under any arrival order, a take_screenshot request runs to its     *)
(* completion before the next one starts: never are two take_screenshot    *)
(* requests both between their start and their completion.                 *)
(***************************************************************************)
\* the request has started and has not completed
InFlight(r) ==
  h[r].tool = "take_screenshot" /\ h[r].pc \notin { "idle", "done", "rejected" }

C13_OneCaptureAtATime ==
  \A r1, r2 \in DOMAIN h : (r1 # r2) => ~(InFlight(r1) /\ InFlight(r2))

(***************************************************************************)
(* C14: when powershell.exe ends with exit code 0 and its error stream     *)
(* holds a recognized failure marker (throw, Exception, a missing-method   *)
(* text, 'not found', or 'Error' without 'ErrorId'), take_screenshot       *)
(* returns the error payload and never the success message, also when the  *)
(* output file exists.                                                     *)
(***************************************************************************)
\* execAsync has settled
ExecSettled(r) == h[r].tool = "take_screenshot" /\ h[r].pc \in { "access", "done" }

\* the error stream holds one of the markers the claim names
MarkerInStderr(r) ==
  \/ "throw" \in h[r].stderr
  \/ "Exception" \in h[r].stderr
  \/ "methodnotfound" \in h[r].stderr
  \/ "does not contain a method named" \in h[r].stderr
  \/ "not found" \in h[r].stderr
  \/ ("Error" \in h[r].stderr /\ "ErrorId" \notin h[r].stderr)

C14_StderrMarkerIsFailure ==
  \A r \in ReqIds :
    (ExecSettled(r) /\ h[r].exit = 0 /\ MarkerInStderr(r))
      => (Returned(r) /\ h[r].result = "error")

\* the script saved its image and ended with exit code 0, the file exists,
\* the error stream holds 'Error' without 'ErrorId', and the error payload was
\* returned
C14_Witness ==
  \E r \in ReqIds :
    /\ Returned(r) /\ h[r].exit = 0 /\ ImageSaved(r) /\ fileExists
    /\ h[r].stderr = { "Error" }
    /\ h[r].result = "error" /\ h[r].errFrom = "stderr"

(***************************************************************************)
(* C15: take_screenshot returns its success message only after             *)
(* powershell.exe has ended without a recognized failure and the output    *)
(* file exists at the local output path; when the file is absent there the *)
(* result is the error payload, never a success.                           *)
(***************************************************************************)
C15_SuccessOnlyWithFile ==
  \A r \in ReqIds :
    (h[r].tool = "take_screenshot" /\ Returned(r))
      => /\ h[r].result = "success"
              => (fileExists /\ h[r].exit = 0 /\ ~MarkerInStderr(r))
         /\ ~fileExists => h[r].result = "error"

\* the script saved an image without any error, but not at the path the
\* handler looks at: the file is absent and the error payload was returned
C15_Witness ==
  \E r \in ReqIds :
    /\ Returned(r) /\ h[r].exit = 0 /\ ~MarkerInStderr(r) /\ ImageSaved(r)
    /\ ~fileExists
    /\ h[r].result = "error" /\ h[r].errFrom = "access"

(***************************************************************************)
(* C16: when the open windows and their enumeration order are the same at  *)
(* both calls, the window list_windows(f) prints with number k is the      *)
(* window take_screenshot(windowNumber = k, filter = f) resolves as its     *)
(* target.                                                                 *)
(***************************************************************************)
\* r1 is a list_windows call that printed its lines, r2 a take_screenshot call
\* with windowNumber and the same filter and no other selector, past its
\* target resolution
ListThenCapture(r1, r2) ==
  /\ h[r1].tool = "list_windows" /\ h[r1].branch = "list"
  /\ h[r2].tool = "take_screenshot" /\ h[r2].branch # "none"
  /\ NumberOnly(h[r2].args)
  /\ FilterOf(h[r2].args) = GivenFilter(r1)

C16_NumberMatchesListing ==
  \A r1, r2 \in DOMAIN h :
    ( /\ ListThenCapture(r1, r2)
      /\ h[r1].seen = h[r2].seen
      /\ h[r2].args.windowNumber[1] \in DOMAIN h[r1].listing )
      => /\ h[r2].thrown = ""
         /\ h[r2].target = h[r1].listing[h[r2].args.windowNumber[1]].hw

(***************************************************************************)
(* C17: in every window capture the background capture (PrintWindow) is    *)
(* attempted exactly once, before any step of the foreground fallback; the *)
(* fallback (SetForegroundWindow on the target, copy from the screen) is   *)
(* entered only after the background capture ran and reported failure;     *)
(* after a reported success the image saved is the background buffer and   *)
(* the run never brings the target to the foreground; a run saves at most  *)
(* one image.                                                              *)
(***************************************************************************)
\* how many times the script called op
Count(r, op) == Cardinality({ i \in DOMAIN h[r].log : h[r].log[i] = op })

\* every call of op1 comes before every call of op2
Before(r, op1, op2) ==
  \A i, j \in DOMAIN h[r].log : (h[r].log[i] = op1 /\ h[r].log[j] = op2) => i < j

\* the script has run the capture step of a window capture
CaptureStepDone(r) == h[r].mode = "window" /\ InLog(r, "GetWindowRect")

\* the script has entered the foreground fallback
InFallback(r) == InLog(r, "SetForegroundTarget") \/ InLog(r, "CopyFromScreen")

\* the background capture ran and reported failure
ReportedFailure(r) == CaptureStepDone(r) /\ InLog(r, "PrintWindow") /\ ~h[r].pwOk

\* the target has the focus though it did not have it when the script
\* recorded the focused window: the run has brought it to the foreground
BroughtToForeground(r) ==
  /\ h[r].target # NoWindow
  /\ foreground = h[r].target
  /\ h[r].prevForeground # h[r].target

C17_BackgroundFirst ==
  \A r \in ReqIds :
    h[r].mode = "window"
      => /\ Count(r, "PrintWindow") <= 1
         /\ CaptureStepDone(r) => Count(r, "PrintWindow") = 1
         /\ Before(r, "PrintWindow", "SetForegroundTarget")
         /\ Before(r, "PrintWindow", "CopyFromScreen")
         /\ Before(r, "PrintWindow", "Save")
         /\ InFallback(r) => ReportedFailure(r)
         /\ (CaptureStepDone(r) /\ h[r].pwOk)
              => /\ ~InFallback(r)
                 /\ ImageSaved(r) => h[r].image.kind = "background"
                 /\ ~BroughtToForeground(r)
         /\ Count(r, "Save") <= 1
         /\ ImageSaved(r) => Count(r, "Save") = 1

(***************************************************************************)
(* C18: in the foreground fallback with allowFocus true the steps come in  *)
(* this order: the focused window is recorded, the target is foregrounded, *)
(* the settle delay elapses, the padded bounds are copied from the screen  *)
(* and saved; afterwards, when the recorded window is a window other than  *)
(* the target, the focus is given back to it, and the script does not end  *)
(* with the focus left on the target.                                      *)
(***************************************************************************)
\* the script entered the foreground fallback of a request with allowFocus true
FallbackRun(r) ==
  /\ h[r].mode = "window"
  /\ JsTruthyBool(h[r].args.allowFocus)
  /\ InLog(r, "SetForegroundTarget")

\* the script is past the copy step of the fallback
PastCopy(r) == h[r].pc = "psRestoreState" \/ ScriptEnded(r)

C18_FallbackOrder ==
  \A r \in ReqIds :
    FallbackRun(r)
      => /\ Count(r, "GetForegroundWindow") = 1
         /\ Before(r, "GetForegroundWindow", "SetForegroundTarget")
         /\ Before(r, "SetForegroundTarget", "Sleep")
         /\ Before(r, "Sleep", "CopyFromScreen")
         /\ Before(r, "CopyFromScreen", "Save")
         /\ PastCopy(r)
              => /\ InLog(r, "Sleep")
                 /\ BitmapOk(h[r].bounds) => (InLog(r, "CopyFromScreen") /\ InLog(r, "Save"))
         /\ ImageSaved(r)
              => h[r].image = [kind |-> "screen", x |-> h[r].bounds.left, y |-> h[r].bounds.top,
                               w |-> h[r].bounds.width, h |-> h[r].bounds.height]
         /\ (ScriptEnded(r) /\ h[r].prevForeground # NoWindow
                /\ h[r].prevForeground # h[r].target)
              => /\ InLog(r, "SetForegroundPrev")
                 /\ Before(r, "SetForegroundTarget", "SetForegroundPrev")
                 /\ Before(r, "Save", "SetForegroundPrev")
                 /\ (h[r].target \in Handles => showQ[h[r].target] = << >>)
                      => foreground # h[r].target
                 /\ ~h[r].wasMinimized => foreground = h[r].prevForeground

\* window 1 had the focus, the fallback foregrounded window 3 and saved the
\* screen copy, and the focus is back on window 1
C18_Witness ==
  \E r \in ReqIds :
    /\ FallbackRun(r) /\ Returned(r) /\ h[r].result = "success"
    /\ h[r].target = 3 /\ h[r].prevForeground = 1
    /\ h[r].image.kind = "screen"
    /\ InLog(r, "SetForegroundPrev") /\ foreground = 1

(***************************************************************************)
(* C19: the poll after the un-minimize request terminates: every turn      *)
(* either finds the window still minimized and sleeps, which happens at    *)
(* most 40 times, or ends the poll; the poll ends at the first check that  *)
(* finds the window not minimized, and after the 40th sleep it ends with   *)
(* the window still minimized; either way the script goes on to the bounds *)
(* and the capture, without failing at that step.                          *)
(***************************************************************************)
C19_PollBounded ==
  [][ \A r \in ReqIds :
        h[r].pc = "psPoll"
          => /\ h[r].i <= 40
             /\ (h'[r] # h[r])
                  => \/ /\ h[r].i < 40 /\ h[r].target \in iconic
                        /\ h'[r].pc = "psPoll" /\ h'[r].i = h[r].i + 1
                     \/ /\ h[r].i = 40 \/ h[r].target \notin iconic
                        /\ h'[r].pc = "psCapture" /\ h'[r].thrown = "" ]_vars

\* the poll ran to its bound: the un-minimize request is still pending, the
\* target is still minimized, and the script has computed the bounds and
\* attempted the capture
C19_Witness ==
  \E r \in ReqIds :
    /\ h[r].mode = "window" /\ h[r].wasMinimized /\ InLog(r, "ShowRestore")
    /\ h[r].target \in iconic
    /\ showQ[h[r].target] # << >> /\ Head(showQ[h[r].target]) = SW_RESTORE
    /\ InLog(r, "GetWindowRect") /\ InLog(r, "PrintWindow")
    /\ h[r].thrown = ""

(***************************************************************************)
(* C20: once a window capture has saved its image, the restoration steps   *)
(* do not change the result: also when the re-minimize request or the      *)
(* focus-restore request fails, the request returns the success message,   *)
(* and the saved file stays in place.                                      *)
(***************************************************************************)
\* a restoration request of the script failed
RestorationFailed(r) == h[r].minFailed \/ h[r].focusFailed

C20_RestorationNeverReverts ==
  \A r \in DOMAIN h :
    (h[r].mode = "window" /\ ImageSaved(r))
      => /\ fileExists
         /\ RestorationFailed(r) => (h[r].thrown = "" /\ h[r].stderr = {})
         /\ (Returned(r) /\ RestorationFailed(r)) => h[r].result = "success"

\* the target closed after its image was saved: the re-minimize request
\* failed, and the request returned success with the file in place
C20_Witness ==
  \E r \in DOMAIN h :
    /\ h[r].mode = "window" /\ ImageSaved(r) /\ h[r].wasMinimized
    /\ h[r].minFailed
    /\ Returned(r) /\ h[r].result = "success" /\ fileExists

(***************************************************************************)
(* C21: for every window rectangle with Left < Right and Top < Bottom,     *)
(* also one partly or wholly at negative coordinates, the capture width    *)
(* and height the script computes are both strictly positive, so that the  *)
(* image buffer can be allocated.                                          *)
(***************************************************************************)
C21_PositiveSize ==
  \A r \in ReqIds :
    ( /\ BoundsComputed(r)
      /\ rect[h[r].target][1] < rect[h[r].target][3]
      /\ rect[h[r].target][2] < rect[h[r].target][4] )
      => /\ h[r].bounds.width > 0
         /\ h[r].bounds.height > 0
         /\ BitmapOk(h[r].bounds)

(***************************************************************************)
(* C22: a request is handled in exactly one of the modes window,           *)
(* all-monitors, single-monitor.  With a window selector of a non-empty,   *)
(* non-zero value it is a window capture, and the monitor argument has no  *)
(* part in its target or outcome; it is handled as a monitor capture only  *)
(* when no window selector was supplied (an empty string counted here as   *)
(* not supplied).                                                          *)
(***************************************************************************)
\* the handler has chosen the script of the request
ModeChosen(r) ==
  h[r].tool = "take_screenshot" /\ h[r].pc \notin { "idle", "mkdir", "rejected" }

\* some window selector has a non-empty, non-zero value
SelectorInForce(a) ==
  \/ JsTruthyStr(a.windowHandle) \/ JsTruthyNum(a.windowNumber)
  \/ JsTruthyStr(a.windowTitle) \/ JsTruthyStr(a.processName)

\* some window selector was supplied: a number, or a non-empty string
SelectorSupplied(a) ==
  \/ JsTruthyStr(a.windowHandle) \/ IsDef(a.windowNumber)
  \/ JsTruthyStr(a.windowTitle) \/ JsTruthyStr(a.processName)

C22_ExactlyOneMode ==
  \A r \in ReqIds :
    ModeChosen(r)
      => /\ h[r].mode \in { "window", "all", "monitor" }
         /\ SelectorInForce(h[r].args)
              => /\ h[r].mode = "window"
                 /\ h[r].screen = NoMonitor
                 /\ h[r].image.kind \in { "none", "background", "screen" }
                 /\ h[r].thrown \notin { "Monitor not found", "Invalid monitor parameter" }
         /\ h[r].mode \in { "all", "monitor" } => ~SelectorSupplied(h[r].args)

====
